---- MODULE Spec2Model ----
(***************************************************************************)
(* Model of the log pipeline of task_3.py (parse_log_line, load_logs,      *)
(* filter_logs_by_level, count_logs_by_level, the display functions and    *)
(* main) and of the contact-book loop of task_4.py.                        *)
(*                                                                         *)
(* A Python str is a sequence of one-character strings.  The character     *)
(* set is the finite alphabet listed in CodeOrder.                         *)
(***************************************************************************)
EXTENDS Integers, Sequences, FiniteSets, TLC

VARIABLES
    \* --- one call of parse_log_line and the re-parse of its rebuilt line
    ppc, pline, pres, pline2, pres2,
    \* --- the query functions applied to a collection
    qpc, qlogs, qlevel, qfiltered, qcounts,
    \* --- a run of task_3.main
    pc, hasPath, fileStatus, fileLines, argLevel, idx, acc, logs, counts,
    filtered, shown, out,
    \* --- the loop of task_4.main
    bpc, contacts, lastCmd, reply

parseVars == <<ppc, pline, pres, pline2, pres2>>
queryVars == <<qpc, qlogs, qlevel, qfiltered, qcounts>>
mainVars  == <<pc, hasPath, fileStatus, fileLines, argLevel, idx, acc, logs,
               counts, filtered, shown, out>>
botVars   == <<bpc, contacts, lastCmd, reply>>
vars      == <<parseVars, queryVars, mainVars, botVars>>

----------------------------------------------------------------------------
(* Characters and the str methods the code uses.                           *)

TAB == "\t"
NL  == "\n"
SP  == " "

Digits == <<"0", "1", "2", "3", "4", "5", "6", "7", "8", "9">>
Lowers == <<"a", "b", "c", "d", "e", "f", "g", "h", "i", "j", "k", "l", "m",
            "n", "o", "p", "q", "r", "s", "t", "u", "v", "w", "x", "y", "z">>
Uppers == <<"A", "B", "C", "D", "E", "F", "G", "H", "I", "J", "K", "L", "M",
            "N", "O", "P", "Q", "R", "S", "T", "U", "V", "W", "X", "Y", "Z">>

\* The alphabet in code-point order: str comparison compares code points.
CodeOrder == <<TAB, NL, SP, "+", "-">> \o Digits \o <<":">> \o Uppers
             \o <<"_">> \o Lowers

Range(s) == {s[i] : i \in DOMAIN s}

DigitSet == Range(Digits)
LowerSet == Range(Lowers)
UpperSet == Range(Uppers)

Ord(c) == CHOOSE i \in DOMAIN CodeOrder : CodeOrder[i] = c

IsDigit(c) == c \in DigitSet

DigitVal(c) == (CHOOSE i \in DOMAIN Digits : Digits[i] = c) - 1

IsAlpha(c) == c \in LowerSet \cup UpperSet

\* str.isspace() of one character
IsSpace(c) == c \in {SP, TAB, NL}

\* str.upper() of one character
UpperChar(c) ==
    IF c \in LowerSet
    THEN Uppers[CHOOSE i \in DOMAIN Lowers : Lowers[i] = c]
    ELSE c

\* str.lower() of one character
LowerChar(c) ==
    IF c \in UpperSet
    THEN Lowers[CHOOSE i \in DOMAIN Uppers : Uppers[i] = c]
    ELSE c

\* str.upper()
Upper(s) == [i \in DOMAIN s |-> UpperChar(s[i])]

\* str.lower()
Lower(s) == [i \in DOMAIN s |-> LowerChar(s[i])]

\* str.lstrip()
RECURSIVE LStrip(_)
LStrip(s) == IF s # <<>> /\ IsSpace(Head(s)) THEN LStrip(Tail(s)) ELSE s

\* str.rstrip()
RECURSIVE RStrip(_)
RStrip(s) ==
    IF s # <<>> /\ IsSpace(s[Len(s)])
    THEN RStrip(SubSeq(s, 1, Len(s) - 1))
    ELSE s

\* str.strip()
Strip(s) == RStrip(LStrip(s))

\* a split at any single whitespace character instead of at spaces only
RECURSIVE SplitAnySpace(_, _)
SplitAnySpace(s, n) ==
    IF n = 0 \/ \A k \in DOMAIN s : ~IsSpace(s[k])
    THEN <<s>>
    ELSE LET i == CHOOSE k \in DOMAIN s :
                      IsSpace(s[k]) /\ \A j \in 1..(k - 1) : ~IsSpace(s[j])
         IN  <<SubSeq(s, 1, i - 1)>> \o SplitAnySpace(SubSeq(s, i + 1, Len(s)), n - 1)

\* str.split(" ", n): at most n splits, at single space characters only;
\* empty fields are kept.
RECURSIVE SplitSpace(_, _)
SplitSpace(s, n) ==
    IF n = 0 \/ \A k \in DOMAIN s : s[k] # SP
    THEN <<s>>
    ELSE LET i == CHOOSE k \in DOMAIN s :
                      s[k] = SP /\ \A j \in 1..(k - 1) : s[j] # SP
         IN  <<SubSeq(s, 1, i - 1)>> \o SplitSpace(SubSeq(s, i + 1, Len(s)), n - 1)

\* str.split(): fields separated by runs of whitespace, no empty field.
RECURSIVE SplitWhitespace(_)
SplitWhitespace(s) ==
    LET t == LStrip(s)
    IN  IF t = <<>>
        THEN <<>>
        ELSE IF \A k \in DOMAIN t : ~IsSpace(t[k])
        THEN <<t>>
        ELSE LET i == CHOOSE k \in DOMAIN t :
                          IsSpace(t[k]) /\ \A j \in 1..(k - 1) : ~IsSpace(t[j])
             IN  <<SubSeq(t, 1, i - 1)>> \o SplitWhitespace(SubSeq(t, i, Len(t)))

\* a < b for str: lexicographic by code point, a proper prefix is smaller
RECURSIVE StrLess(_, _)
StrLess(a, b) ==
    IF b = <<>> THEN FALSE
    ELSE IF a = <<>> THEN TRUE
    ELSE IF Head(a) # Head(b) THEN Ord(Head(a)) < Ord(Head(b))
    ELSE StrLess(Tail(a), Tail(b))

----------------------------------------------------------------------------
(* datetime.strptime(s, "%Y-%m-%d %H:%M:%S")                               *)
(* The format compiles to the regular expression                           *)
(*   (\d\d\d\d)-(1[0-2]|0[1-9]|[1-9])-(3[0-1]|[1-2]\d|0[1-9]|[1-9]| [1-9]) *)
(*   \s+(2[0-3]|[0-1]\d|\d):([0-5]\d|\d):(6[0-1]|[0-5]\d|\d)               *)
(* which must match the whole string; the fields then go through the       *)
(* datetime constructor's range checks.                                    *)

NonZeroDigit(c) == IsDigit(c) /\ c # "0"

\* %m : 1[0-2] | 0[1-9] | [1-9]
MonthField(f) ==
    \/ Len(f) = 2 /\ f[1] = "1" /\ f[2] \in {"0", "1", "2"}
    \/ Len(f) = 2 /\ f[1] = "0" /\ NonZeroDigit(f[2])
    \/ Len(f) = 1 /\ NonZeroDigit(f[1])

\* %d : 3[0-1] | [1-2]\d | 0[1-9] | [1-9] | " "[1-9]
DayField(f) ==
    \/ Len(f) = 2 /\ f[1] = "3" /\ f[2] \in {"0", "1"}
    \/ Len(f) = 2 /\ f[1] \in {"1", "2"} /\ IsDigit(f[2])
    \/ Len(f) = 2 /\ f[1] = "0" /\ NonZeroDigit(f[2])
    \/ Len(f) = 1 /\ NonZeroDigit(f[1])
    \/ Len(f) = 2 /\ f[1] = SP /\ NonZeroDigit(f[2])

\* %H : 2[0-3] | [0-1]\d | \d
HourField(f) ==
    \/ Len(f) = 2 /\ f[1] = "2" /\ f[2] \in {"0", "1", "2", "3"}
    \/ Len(f) = 2 /\ f[1] \in {"0", "1"} /\ IsDigit(f[2])
    \/ Len(f) = 1 /\ IsDigit(f[1])

\* %M : [0-5]\d | \d
MinuteField(f) ==
    \/ Len(f) = 2 /\ f[1] \in {"0", "1", "2", "3", "4", "5"} /\ IsDigit(f[2])
    \/ Len(f) = 1 /\ IsDigit(f[1])

\* %S : 6[0-1] | [0-5]\d | \d
SecondField(f) ==
    \/ Len(f) = 2 /\ f[1] = "6" /\ f[2] \in {"0", "1"}
    \/ MinuteField(f)

\* int() of a field: digits, with surrounding whitespace ignored
RECURSIVE IntOf(_)
IntOf(f) ==
    LET g == Strip(f)
    IN  IF g = <<>> THEN 0
        ELSE 10 * IntOf(SubSeq(g, 1, Len(g) - 1)) + DigitVal(g[Len(g)])

\* The ways the regular expression matches the whole of s: the lengths of
\* the month, day, hour, minute and second fields (the whitespace run takes
\* what is left).
FieldLengths == [lm : 1..2, ld : 1..2, lh : 1..2, li : 1..2, ls : 1..2]

WhitespaceLen(s, m) == Len(s) - (4 + 1 + m.lm + 1 + m.ld + m.lh + 1 + m.li + 1 + m.ls)

RegexMatches(s) ==
    {m \in FieldLengths :
        LET pm == 6
            pd == pm + m.lm + 1
            pw == pd + m.ld
            ph == pw + WhitespaceLen(s, m)
            pi == ph + m.lh + 1
            ps == pi + m.li + 1
        IN  /\ WhitespaceLen(s, m) >= 1
            /\ \A k \in 1..4 : IsDigit(s[k])
            /\ s[5] = "-"
            /\ MonthField(SubSeq(s, pm, pd - 2))
            /\ s[pd - 1] = "-"
            /\ DayField(SubSeq(s, pd, pw - 1))
            /\ \A k \in pw..(ph - 1) : IsSpace(s[k])
            /\ HourField(SubSeq(s, ph, pi - 2))
            /\ s[pi - 1] = ":"
            /\ MinuteField(SubSeq(s, pi, ps - 2))
            /\ s[ps - 1] = ":"
            /\ SecondField(SubSeq(s, ps, Len(s)))}

IsLeap(y) == y % 4 = 0 /\ (y % 100 # 0 \/ y % 400 = 0)

DaysInMonth(y, m) ==
    IF m = 2 THEN (IF IsLeap(y) THEN 29 ELSE 28)
    ELSE IF m \in {4, 6, 9, 11} THEN 30 ELSE 31

\* The fields strptime reads from a string the regular expression matches.
FieldsOf(s) ==
    LET m  == CHOOSE x \in RegexMatches(s) : TRUE
        pd == 6 + m.lm + 1
        pw == pd + m.ld
        ph == pw + WhitespaceLen(s, m)
        pi == ph + m.lh + 1
        ps == pi + m.li + 1
    IN  [Y  |-> IntOf(SubSeq(s, 1, 4)),
         Mo |-> IntOf(SubSeq(s, 6, pd - 2)),
         D  |-> IntOf(SubSeq(s, pd, pw - 1)),
         H  |-> IntOf(SubSeq(s, ph, pi - 2)),
         Mi |-> IntOf(SubSeq(s, pi, ps - 2)),
         S  |-> IntOf(SubSeq(s, ps, Len(s)))]

\* The datetime constructor's checks (the regular expression already bounds
\* month, hour and minute).
DatetimeInRange(d) ==
    /\ d.Y >= 1
    /\ d.D <= DaysInMonth(d.Y, d.Mo)
    /\ d.S <= 59

\* strptime returns a datetime (TRUE) or raises ValueError (FALSE).
StrptimeOk(s) == RegexMatches(s) # {} /\ DatetimeInRange(FieldsOf(s))

\* a < b for two datetimes: year, month, day, hour, minute, second in turn
RECURSIVE TupleLess(_, _)
TupleLess(a, b) ==
    IF a = <<>> THEN FALSE
    ELSE IF Head(a) # Head(b) THEN Head(a) < Head(b)
    ELSE TupleLess(Tail(a), Tail(b))

DatetimeLess(a, b) ==
    TupleLess(<<a.Y, a.Mo, a.D, a.H, a.Mi, a.S>>, <<b.Y, b.Mo, b.D, b.H, b.Mi, b.S>>)

----------------------------------------------------------------------------
(* task_3.parse_log_line                                                   *)

INFO    == <<"I", "N", "F", "O">>
DEBUG   == <<"D", "E", "B", "U", "G">>
ERROR   == <<"E", "R", "R", "O", "R">>
WARNING == <<"W", "A", "R", "N", "I", "N", "G">>

\* the list ["INFO", "DEBUG", "ERROR", "WARNING"]
Levels == {INFO, DEBUG, ERROR, WARNING}

None == [tag |-> "None"]

\* the dict {}
EmptyDict == [k \in {} |-> 0]

Raise(e) == [tag |-> "raise", exc |-> e]

IsRecord(r) == r.tag = "rec"

\* the date-time text the code validates and stores
DateOf(parts) == parts[1] \o <<SP>> \o parts[2]

\* the dict the function returns
MakeRecordNoTime(parts) ==
    [tag |-> "rec", date |-> parts[1], level |-> parts[3],
     message |-> Strip(parts[4])]

MakeRecord(parts) ==
    [tag |-> "rec", date |-> DateOf(parts), level |-> parts[3],
     message |-> Strip(parts[4])]

\* the body of the try block: a record, or the exception it raises
TryParse(line) ==
    LET parts == SplitSpace(Strip(line), 3)
    IN  IF Len(parts) < 4 THEN Raise("ValueError")
        ELSE IF ~StrptimeOk(DateOf(parts)) THEN Raise("ValueError")
        ELSE IF parts[3] \notin Levels THEN Raise("ValueError")
        ELSE MakeRecord(parts)

\* except (IndexError, ValueError)
CaughtOnlyIndexError == {"IndexError"}

Caught == {"IndexError", "ValueError"}

\* a record, None, or an exception that escapes the function
parse_log_line(line) ==
    LET r == TryParse(line)
    IN  IF r.tag = "raise" /\ r.exc \in Caught THEN None ELSE r

----------------------------------------------------------------------------
(* task_3: the query and display functions                                 *)

\* a comparison of the stored level with the request as typed
filter_logs_exact_level(lgs, level) ==
    LET Match(log) == log.level = level
    IN  SelectSeq(lgs, Match)

\* list(filter(lambda log: log["level"].upper() == level.upper(), logs));
\* filter keeps the elements the lambda holds of, in order, in a new list
filter_logs_by_level(lgs, level) ==
    LET Match(log) == Upper(log.level) = Upper(level)
    IN  SelectSeq(lgs, Match)

\* dict.get(k, d)
Get(d, k, default) == IF k \in DOMAIN d THEN d[k] ELSE default

\* {**acc, k: v}
With(d, k, v) == [x \in DOMAIN d \cup {k} |-> IF x = k THEN v ELSE d[x]]

\* the lambda with acc.get(level, 1) in place of acc.get(level, 0)
CountStepFromOne(a, log) == With(a, log.level, Get(a, log.level, 1) + 1)

\* lambda acc, log: {**acc, log["level"]: acc.get(log["level"], 0) + 1}
CountStep(a, log) == With(a, log.level, Get(a, log.level, 0) + 1)

\* functools.reduce(CountStep, logs, acc)
RECURSIVE ReduceCount(_, _)
ReduceCount(lgs, a) ==
    IF lgs = <<>> THEN a ELSE ReduceCount(Tail(lgs), CountStep(a, Head(lgs)))

count_logs_by_level(lgs) == ReduceCount(lgs, EmptyDict)

\* what display_log_counts prints
display_log_counts(cnt) ==
    IF DOMAIN cnt = {} THEN <<"no_logs_to_display">> ELSE <<"table">>

\* r placed after every element whose date is not greater (sorted is stable)
RECURSIVE InsertByDate(_, _)
InsertByDate(r, srt) ==
    IF srt = <<>> THEN <<r>>
    ELSE IF StrLess(r.date, Head(srt).date) THEN <<r>> \o srt
    ELSE <<Head(srt)>> \o InsertByDate(r, Tail(srt))

\* sorted(logs, key=lambda x: x["date"])
RECURSIVE SortByDate(_)
SortByDate(lgs) ==
    IF lgs = <<>> THEN <<>>
    ELSE InsertByDate(lgs[Len(lgs)], SortByDate(SubSeq(lgs, 1, Len(lgs) - 1)))

\* what display_filtered_logs prints
display_filtered_logs(lgs) ==
    IF lgs = <<>> THEN <<"no_logs_for_level">> ELSE <<"detail">>

----------------------------------------------------------------------------
(* Input lines.                                                            *)

Cat3(a, b, c) == a \o b \o c

DateGood    == <<"2", "0", "2", "4", "-", "0", "1", "-", "0", "3">>
DateShort   == <<"2", "0", "2", "4", "-", "1", "-", "3">>
DateMonth13 == <<"2", "0", "2", "4", "-", "1", "3", "-", "0", "1">>
DateFeb29   == <<"2", "0", "2", "3", "-", "0", "2", "-", "2", "9">>
DateYear3   == <<"0", "2", "4", "-", "0", "1", "-", "0", "3">>

TimeGood    == <<"1", "0", ":", "1", "5", ":", "0", "0">>
TimeShort   == <<"8", ":", "5", ":", "0">>
TimeHour24  == <<"2", "4", ":", "0", "0", ":", "0", "0">>
TimeSec60   == <<"0", "8", ":", "0", "0", ":", "6", "0">>
TimeNoSec   == <<"1", "0", ":", "1", "5">>

DateToks == {DateGood, DateShort, DateMonth13, DateFeb29, DateYear3}
TimeToks == {TimeGood, TimeShort, TimeHour24, TimeSec60, TimeNoSec}
LevelToks == {INFO, WARNING, <<"T", "R", "A", "C", "E">>, <<"i", "n", "f", "o">>}
MsgToks == {<<"m">>, <<"a", SP, SP, "b">>, <<"a", TAB, "b">>}
Seps == {<<SP>>, <<SP, SP>>, <<TAB>>, <<SP, TAB>>, <<TAB, SP>>}
Wraps == {<<<<>>, <<>>>>, <<<<SP>>, <<NL>>>>, <<<<>>, <<SP, NL>>>>}

Line(d, s1, t, s2, l, s3, m, w) ==
    w[1] \o d \o s1 \o t \o s2 \o l \o s3 \o m \o w[2]

\* every token combination, separated by single spaces
TokenLines ==
    {Line(d, <<SP>>, t, <<SP>>, l, <<SP>>, m, w) :
        d \in DateToks, t \in TimeToks, l \in LevelToks, m \in MsgToks, w \in Wraps}

\* every separator combination, around tokens the code accepts
SeparatorLines ==
    {Line(d, s1, TimeGood, s2, INFO, s3, m, w) :
        d \in {DateGood, DateShort}, s1 \in Seps, s2 \in Seps, s3 \in Seps,
        m \in MsgToks, w \in {<<<<>>, <<>>>>, <<<<SP>>, <<NL>>>>}}

\* lines with fewer than four fields, and the day written " 3"
OtherLines ==
    {<<>>, <<NL>>, <<"g", "a", "r", "b", "a", "g", "e", SP, "l", "i", "n", "e">>,
     Cat3(DateGood, <<SP>>, TimeGood),
     Cat3(DateGood, <<SP>>, TimeGood) \o <<SP>> \o INFO,
     Cat3(DateGood, <<SP>>, TimeGood) \o <<SP>> \o INFO \o <<SP, NL>>,
     <<"2", "0", "2", "4", "-", "0", "1", "-", SP, "3", TAB>> \o TimeGood
         \o <<SP>> \o INFO \o <<SP, "m">>}

LineMenu == TokenLines \cup SeparatorLines \cup OtherLines

----------------------------------------------------------------------------
(* Idle values of the parts a specification does not run.                  *)

ParseIdle ==
    /\ ppc = "off" /\ pline = <<>> /\ pres = None /\ pline2 = <<>> /\ pres2 = None

QueryIdle ==
    /\ qpc = "off" /\ qlogs = <<>> /\ qlevel = <<>> /\ qfiltered = <<>>
    /\ qcounts = EmptyDict

MainIdle ==
    /\ pc = "off" /\ hasPath = FALSE /\ fileStatus = "missing"
    /\ fileLines = <<>> /\ argLevel = None /\ idx = 0 /\ acc = <<>>
    /\ logs = <<>> /\ counts = EmptyDict /\ filtered = <<>> /\ shown = <<>>
    /\ out = <<>>

BotIdle ==
    /\ bpc = "off" /\ contacts = EmptyDict /\ lastCmd = <<>> /\ reply = None

----------------------------------------------------------------------------
(* One call of parse_log_line, then the re-parse of the line rebuilt from  *)
(* the record.                                                             *)

\* r.date + ' ' + r.level + ' ' + r.message
Rebuild(r) == r.date \o <<SP>> \o r.level \o <<SP>> \o r.message

ParseInit ==
    /\ ppc = "start" /\ pline \in LineMenu /\ pres = None
    /\ pline2 = <<>> /\ pres2 = None
    /\ QueryIdle /\ MainIdle /\ BotIdle

ParseLine ==
    /\ ppc = "start"
    /\ pres' = parse_log_line(pline)
    /\ ppc' = "parsed"
    /\ UNCHANGED <<pline, pline2, pres2, queryVars, mainVars, botVars>>

ReparseLine ==
    /\ ppc = "parsed"
    /\ IsRecord(pres)
    /\ pline2' = Rebuild(pres)
    /\ pres2' = parse_log_line(Rebuild(pres))
    /\ ppc' = "reparsed"
    /\ UNCHANGED <<pline, pres, queryVars, mainVars, botVars>>

ParseNext == ParseLine \/ ReparseLine

SpecParse == ParseInit /\ [][ParseNext]_vars

----------------------------------------------------------------------------
(* Properties of parse_log_line.                                           *)

\* the fixed pattern YYYY-MM-DD HH:MM:SS, digit for digit
StrictTimestamp(s) ==
    /\ Len(s) = 19
    /\ \A k \in {1, 2, 3, 4, 6, 7, 9, 10, 12, 13, 15, 16, 18, 19} : IsDigit(s[k])
    /\ s[5] = "-" /\ s[8] = "-" /\ s[11] = SP /\ s[14] = ":" /\ s[17] = ":"

\* the leading run of whitespace of s
RECURSIVE SpaceRun(_)
SpaceRun(s) ==
    IF s # <<>> /\ IsSpace(Head(s)) THEN <<Head(s)>> \o SpaceRun(Tail(s)) ELSE <<>>

\* s without its leading run of non-whitespace
RECURSIVE DropToken(_)
DropToken(s) ==
    IF s # <<>> /\ ~IsSpace(Head(s)) THEN DropToken(Tail(s)) ELSE s

\* the text after the k-th whitespace-delimited token of the trimmed line
RECURSIVE AfterToken(_, _)
AfterToken(s, k) ==
    IF k = 0 THEN Strip(s) ELSE DropToken(LStrip(AfterToken(s, k - 1)))

\* the whitespace that follows the k-th token
SepAfter(s, k) == SpaceRun(AfterToken(s, k))

CountSpaces(s) == Cardinality({k \in DOMAIN s : s[k] = SP})

\* the case of C9: the first three whitespace-delimited tokens are a date and
\* a time strptime accepts and a recognised level, and a fourth token follows
ThreeGoodTokens(line) ==
    LET toks == SplitWhitespace(line)
    IN  /\ Len(toks) >= 4
        /\ StrptimeOk(toks[1] \o <<SP>> \o toks[2])
        /\ toks[3] \in Levels

\* C2 (as claimed): a line whose first two fields, joined by a space, do not
\* match YYYY-MM-DD HH:MM:SS strictly yields no record.
C2_StrictTimestampOrNone ==
    ppc = "parsed" =>
        LET parts == SplitSpace(Strip(pline), 3)
        IN  (Len(parts) >= 2 /\ ~StrictTimestamp(DateOf(parts))) => pres = None

\* C7: the line rebuilt from an accepted record as date + ' ' + level + ' ' +
\* message is accepted again and gives an equal record.
C7_RoundTrip ==
    ppc = "reparsed" => (IsRecord(pres2) /\ pres2 = pres)

\* C7 witness: an accepted line that differs from its rebuilt line (leading
\* or trailing whitespace, or a wider gap before the message) was re-parsed.
C7_Witness ==
    /\ ppc = "reparsed" /\ IsRecord(pres) /\ pline2 # pline
    /\ \E k \in DOMAIN pres.message : IsSpace(pres.message[k])

\* C9 (as claimed): whatever whitespace separates the fields, a line with
\* three good tokens and a fourth is accepted, its message the rest, trimmed.
C9_AnyWhitespaceAccepted ==
    (ppc = "parsed" /\ ThreeGoodTokens(pline)) =>
        (IsRecord(pres) /\ pres.message = Strip(AfterToken(pline, 3)))

\* C9 (amended): the split is at single space characters only.  A line with
\* three good tokens and a fourth is accepted exactly when the gap between
\* date and time holds exactly one space character, the gap between time and
\* level is exactly one space, and the gap after the level begins with a
\* space; its date is then the first two tokens with their gap, its level
\* the third token and its message all the remaining text, trimmed.
C9_SingleSpaceSplit ==
    (ppc = "parsed" /\ ThreeGoodTokens(pline)) =>
        LET toks == SplitWhitespace(pline)
            fits == /\ CountSpaces(SepAfter(pline, 1)) = 1
                    /\ SepAfter(pline, 2) = <<SP>>
                    /\ Head(SepAfter(pline, 3)) = SP
        IN  /\ IsRecord(pres) <=> fits
            /\ IsRecord(pres) =>
                   /\ pres.date = toks[1] \o SepAfter(pline, 1) \o toks[2]
                   /\ pres.level = toks[3]
                   /\ pres.message = Strip(AfterToken(pline, 3))

\* C9 witness: an accepted line with a tab beside the space between date and
\* time and more than one whitespace character before the message.
C9_Witness ==
    /\ ppc = "parsed" /\ ThreeGoodTokens(pline) /\ IsRecord(pres)
    /\ TAB \in Range(SepAfter(pline, 1))
    /\ Len(SepAfter(pline, 3)) > 1

----------------------------------------------------------------------------
(* The query functions applied to a collection.                            *)

MaxLogs == 3

Stamp(d, t) == d \o <<SP>> \o t

Rec(d, l, m) == [tag |-> "rec", date |-> d, level |-> l, message |-> m]

RecordMenu ==
    {Rec(Stamp(DateGood, TimeGood), ERROR, <<"a">>),
     Rec(Stamp(DateShort, TimeShort), ERROR, <<"b">>),
     Rec(Stamp(DateGood, TimeGood), INFO, <<"c">>),
     Rec(Stamp(DateGood, TimeShort), WARNING, <<"d">>),
     Rec(Stamp(DateGood, TimeGood), <<"E", "r", "r", "o", "r">>, <<"e">>)}

LevelTexts ==
    {ERROR, <<"e", "r", "r", "o", "r">>, <<"E", "r", "r", "o", "R">>,
     <<"i", "n", "f", "o">>, DEBUG, <<"T", "R", "A", "C", "E">>, <<>>}

SeqsUpTo(S, n) == UNION {[1..k -> S] : k \in 0..n}

QueryInit ==
    /\ qpc = "start" /\ qlogs \in SeqsUpTo(RecordMenu, MaxLogs)
    /\ qlevel \in LevelTexts /\ qfiltered = <<>> /\ qcounts = EmptyDict
    /\ ParseIdle /\ MainIdle /\ BotIdle

QueryFilter ==
    /\ qpc = "start"
    /\ qfiltered' = filter_logs_by_level(qlogs, qlevel)
    /\ qpc' = "filtered"
    /\ UNCHANGED <<qlogs, qlevel, qcounts, parseVars, mainVars, botVars>>

QueryCount ==
    /\ qpc = "filtered"
    /\ qcounts' = count_logs_by_level(qlogs)
    /\ qpc' = "counted"
    /\ UNCHANGED <<qlogs, qlevel, qfiltered, parseVars, mainVars, botVars>>

QueryNext == QueryFilter \/ QueryCount

SpecQuery == QueryInit /\ [][QueryNext]_vars

RECURSIVE SumOver(_, _)
SumOver(d, keys) ==
    IF keys = {} THEN 0
    ELSE LET k == CHOOSE x \in keys : TRUE IN d[k] + SumOver(d, keys \ {k})

\* C5: the keys of the count mapping are exactly the levels that occur, each
\* with the number of its records (so at least 1), the counts add up to the
\* size of the collection, and the empty collection gives the empty mapping.
C5_CountsByLevel ==
    qpc = "counted" =>
        /\ DOMAIN qcounts = {qlogs[i].level : i \in DOMAIN qlogs}
        /\ \A k \in DOMAIN qcounts :
              /\ qcounts[k] = Cardinality({i \in DOMAIN qlogs : qlogs[i].level = k})
              /\ qcounts[k] >= 1
        /\ SumOver(qcounts, DOMAIN qcounts) = Len(qlogs)
        /\ (qlogs = <<>> => qcounts = EmptyDict)

\* C5 witness: a counted collection with a level that occurs twice and
\* another level beside it.
C5_Witness ==
    /\ qpc = "counted"
    /\ \E k \in DOMAIN qcounts : qcounts[k] >= 2
    /\ Cardinality(DOMAIN qcounts) >= 2

\* equality of two texts up to the case of their letters
SameIgnoringCase(a, b) ==
    /\ Len(a) = Len(b)
    /\ \A i \in DOMAIN a : LowerChar(a[i]) = LowerChar(b[i])

StrictlyIncreasing(f) == \A i, j \in DOMAIN f : i < j => f[i] < f[j]

\* the result holds exactly the records whose level is the requested one up
\* to letter case, as a subsequence of the collection in its order, and a
\* request in another letter case gives the same result
FilterResultExact ==
    qpc # "start" =>
        LET hits == {i \in DOMAIN qlogs : SameIgnoringCase(qlogs[i].level, qlevel)}
        IN  /\ Len(qfiltered) = Cardinality(hits)
            /\ \E f \in [DOMAIN qfiltered -> hits] :
                  /\ StrictlyIncreasing(f)
                  /\ \A j \in DOMAIN qfiltered : qfiltered[j] = qlogs[f[j]]
            /\ qfiltered = filter_logs_by_level(qlogs, Lower(qlevel))
            /\ qfiltered = filter_logs_by_level(qlogs, Upper(qlevel))

\* C6: filter_logs_by_level returns exactly the records whose level is the
\* requested one up to letter case, in the order of the collection, the same
\* for requests that differ in letter case only, and never changes the
\* collection it is given.
C6_FilterIgnoresCase ==
    []FilterResultExact /\ [][qlogs' = qlogs]_vars

\* C6 witness: a request in lower case picked two records out of a collection
\* that also holds others.
C6_Witness ==
    /\ qpc = "filtered" /\ qlevel = <<"e", "r", "r", "o", "r">>
    /\ Len(qfiltered) = 2 /\ Len(qlogs) = 3

----------------------------------------------------------------------------
(* A run of task_3.main.                                                   *)

MaxLines == 3

LineOf(d, t, l, m) == Line(d, <<SP>>, t, <<SP>>, l, <<SP>>, m, <<<<>>, <<NL>>>>)

DateOct == <<"2", "0", "2", "4", "-", "1", "0", "-", "0", "1">>
DateSep == <<"2", "0", "2", "4", "-", "9", "-", "0", "1">>

\* the lines a log file is made of
FileLineMenu ==
    {LineOf(DateOct, TimeGood, ERROR, <<"a">>),
     LineOf(DateSep, TimeGood, ERROR, <<"b">>),
     LineOf(DateGood, TimeGood, INFO, <<"c">>),
     LineOf(DateGood, TimeGood, <<"T", "R", "A", "C", "E">>, <<"d">>),
     <<"g", "a", "r", "b", "a", "g", "e", SP, "l", "i", "n", "e", NL>>}

\* sys.argv[2], when given
ArgLevels == {None} \cup {[tag |-> "arg", text |-> t] : t \in
    {<<"e", "r", "r", "o", "r">>, WARNING, <<"t", "r", "a", "c", "e">>}}

MainInit ==
    /\ pc = "start" /\ hasPath \in BOOLEAN
    /\ fileStatus \in {"ok", "missing", "denied"}
    /\ fileLines \in SeqsUpTo(FileLineMenu, MaxLines)
    /\ (~hasPath \/ fileStatus # "ok") => fileLines = <<>>
    /\ ~hasPath => (fileStatus = "missing" /\ argLevel = None)
    /\ argLevel \in ArgLevels
    /\ idx = 0 /\ acc = <<>> /\ logs = <<>> /\ counts = EmptyDict
    /\ filtered = <<>> /\ shown = <<>> /\ out = <<>>
    /\ ParseIdle /\ QueryIdle /\ BotIdle

\* main, len(sys.argv) < 2
Usage ==
    /\ pc = "start" /\ ~hasPath
    /\ out' = Append(out, "usage")
    /\ pc' = "done"
    /\ UNCHANGED <<hasPath, fileStatus, fileLines, argLevel, idx, acc, logs,
                   counts, filtered, shown, parseVars, queryVars, botVars>>

\* load_logs: open(file_path)
OpenFile ==
    /\ pc = "start" /\ hasPath
    /\ IF fileStatus = "ok"
       THEN /\ pc' = "reading" /\ idx' = 1
            /\ UNCHANGED <<out, logs>>
       ELSE /\ out' = Append(out, IF fileStatus = "missing"
                                  THEN "err_not_found" ELSE "err_permission")
            /\ logs' = <<>>
            /\ pc' = "loaded"
            /\ UNCHANGED idx
    /\ UNCHANGED <<hasPath, fileStatus, fileLines, argLevel, acc, counts,
                   filtered, shown, parseVars, queryVars, botVars>>

\* load_logs: one line through map(parse_log_line, file) and filter(None, ...)
ReadLine ==
    /\ pc = "reading" /\ idx <= Len(fileLines)
    /\ \E r \in {parse_log_line(fileLines[idx])} :
           IF r.tag = "raise"
           THEN \* except Exception: the whole load gives []
                /\ out' = Append(out, "err_unexpected")
                /\ logs' = <<>>
                /\ pc' = "loaded"
                /\ UNCHANGED <<idx, acc>>
           ELSE /\ acc' = IF r = None THEN acc ELSE Append(acc, r)
                /\ out' = IF r = None THEN Append(out, "warn_skip") ELSE out
                /\ idx' = idx + 1
                /\ UNCHANGED <<pc, logs>>
    /\ UNCHANGED <<hasPath, fileStatus, fileLines, argLevel, counts, filtered,
                   shown, parseVars, queryVars, botVars>>

\* load_logs: the file is exhausted
EndOfFile ==
    /\ pc = "reading" /\ idx > Len(fileLines)
    /\ logs' = acc
    /\ out' = IF acc = <<>> THEN Append(out, "warn_no_valid") ELSE out
    /\ pc' = "loaded"
    /\ UNCHANGED <<hasPath, fileStatus, fileLines, argLevel, idx, acc, counts,
                   filtered, shown, parseVars, queryVars, botVars>>

\* the level check of main, as it would run before the statistics
ReportAfterLevelCheck ==
    /\ pc = "loaded"
    /\ IF logs = <<>>
       THEN pc' = "done" /\ UNCHANGED <<counts, out>>
       ELSE IF argLevel # None /\ Upper(argLevel.text) \notin Levels
       THEN /\ out' = out \o <<"err_level", "valid_levels">>
            /\ pc' = "done"
            /\ UNCHANGED counts
       ELSE /\ counts' = count_logs_by_level(logs)
            /\ out' = out \o display_log_counts(count_logs_by_level(logs))
            /\ pc' = "filter"
    /\ UNCHANGED <<hasPath, fileStatus, fileLines, argLevel, idx, acc, logs,
                   filtered, shown, parseVars, queryVars, botVars>>

\* main: if not logs: return; the statistics
Report ==
    /\ pc = "loaded"
    /\ IF logs = <<>>
       THEN pc' = "done" /\ UNCHANGED <<counts, out>>
       ELSE /\ counts' = count_logs_by_level(logs)
            /\ out' = out \o display_log_counts(count_logs_by_level(logs))
            /\ pc' = "filter"
    /\ UNCHANGED <<hasPath, fileStatus, fileLines, argLevel, idx, acc, logs,
                   filtered, shown, parseVars, queryVars, botVars>>

\* the optional level filter without the check of the level
FilterReportUnchecked ==
    /\ pc = "filter"
    /\ IF argLevel = None
       THEN UNCHANGED <<filtered, shown, out>>
       ELSE LET level == Upper(argLevel.text)
            IN  /\ filtered' = filter_logs_by_level(logs, level)
                /\ shown' = SortByDate(filter_logs_by_level(logs, level))
                /\ out' = out \o display_filtered_logs(
                                     filter_logs_by_level(logs, level))
    /\ pc' = "done"
    /\ UNCHANGED <<hasPath, fileStatus, fileLines, argLevel, idx, acc, logs,
                   counts, parseVars, queryVars, botVars>>

\* main: the optional level filter
FilterReport ==
    /\ pc = "filter"
    /\ IF argLevel = None
       THEN UNCHANGED <<filtered, shown, out>>
       ELSE LET level == Upper(argLevel.text)
            IN  IF level \notin Levels
                THEN /\ out' = out \o <<"err_level", "valid_levels">>
                     /\ UNCHANGED <<filtered, shown>>
                ELSE /\ filtered' = filter_logs_by_level(logs, level)
                     /\ shown' = SortByDate(filter_logs_by_level(logs, level))
                     /\ out' = out \o display_filtered_logs(
                                          filter_logs_by_level(logs, level))
    /\ pc' = "done"
    /\ UNCHANGED <<hasPath, fileStatus, fileLines, argLevel, idx, acc, logs,
                   counts, parseVars, queryVars, botVars>>

MainNext == Usage \/ OpenFile \/ ReadLine \/ EndOfFile \/ Report \/ FilterReport

Spec == MainInit /\ [][MainNext]_vars

----------------------------------------------------------------------------
(* Properties of a run of task_3.main.                                     *)

Printed(what) == what \in Range(out)

Times(what) == Cardinality({k \in DOMAIN out : out[k] = what})

\* the lines of the file that pass the three checks of parse_log_line
ValidLines == {i \in DOMAIN fileLines : IsRecord(TryParse(fileLines[i]))}

Loaded == hasPath /\ fileStatus = "ok" /\ pc \in {"loaded", "filter", "done"}

FilterInvalid == argLevel # None /\ Upper(argLevel.text) \notin Levels

\* C1: no line makes parse_log_line raise or the load abort, and the loaded
\* collection is the records of the valid lines, one each, in line order,
\* every other line being skipped with a warning.
C1_LoadKeepsValidLines ==
    /\ (pc = "reading" /\ idx <= Len(fileLines)) =>
          parse_log_line(fileLines[idx]).tag # "raise"
    /\ ~Printed("err_unexpected")
    /\ Loaded =>
          \E valid \in {ValidLines} :
              /\ Len(logs) = Cardinality(valid)
              /\ \E f \in [DOMAIN logs -> valid] :
                    /\ StrictlyIncreasing(f)
                    /\ \A j \in DOMAIN logs : logs[j] = TryParse(fileLines[f[j]])
              /\ Times("warn_skip") = Len(fileLines) - Cardinality(valid)

\* C1 witness: a file of three lines, the middle one invalid, was loaded
\* into a collection of two records.
C1_Witness ==
    /\ Loaded /\ Len(fileLines) = 3 /\ ValidLines = {1, 3} /\ Len(logs) = 2
    /\ logs[1] # logs[2]

\* C3: a run with a source path prints the level-count table exactly when
\* the loaded collection is not empty, whatever the filter argument, and
\* never for a missing or unreadable source.
C3_TableIffRecords ==
    (pc = "done" /\ hasPath) =>
        /\ Printed("table") <=> logs # <<>>
        /\ logs # <<>> <=> (fileStatus = "ok" /\ ValidLines # {})
        /\ Times("table") <= 1

\* C3 witness: a finished run with an invalid filter level that printed the
\* table.
C3_Witness ==
    pc = "done" /\ hasPath /\ FilterInvalid /\ Printed("table")

\* C4 (as claimed): a run with an invalid filter level prints no count table.
C4_InvalidLevelDropsTable ==
    (pc = "done" /\ hasPath /\ FilterInvalid) => ~Printed("table")

\* C4 (amended): with an invalid filter level and at least one valid record
\* the count table is printed first and the invalid-level diagnostic after
\* it, and no filtered listing follows; with no valid record the run ends
\* before the level is looked at and prints neither.
C4_TableThenDiagnostic ==
    (pc = "done" /\ hasPath /\ FilterInvalid) =>
        /\ logs # <<>> =>
              /\ Len(out) >= 3
              /\ SubSeq(out, Len(out) - 2, Len(out)) =
                     <<"table", "err_level", "valid_levels">>
              /\ Times("table") = 1 /\ Times("err_level") = 1
        /\ logs = <<>> => (~Printed("table") /\ ~Printed("err_level"))
        /\ ~Printed("detail") /\ ~Printed("no_logs_for_level")
        /\ shown = <<>> /\ filtered = <<>>

\* C4 witness: a finished run with an invalid filter level over a file with a
\* valid record and a skipped line.
C4_Witness ==
    /\ pc = "done" /\ hasPath /\ FilterInvalid /\ logs # <<>>
    /\ Printed("err_level") /\ Printed("warn_skip")

\* C8 (as claimed): the filtered listing is in ascending order of the stored
\* timestamp text, and that is chronological order.
C8_ListingChronological ==
    pc = "done" =>
        \A i, j \in DOMAIN shown : i < j =>
            /\ ~StrLess(shown[j].date, shown[i].date)
            /\ ~DatetimeLess(FieldsOf(shown[j].date), FieldsOf(shown[i].date))

----------------------------------------------------------------------------
(* task_4: the contact book                                                *)

\* str.isalnum() of one character
IsAlnum(c) == IsAlpha(c) \/ IsDigit(c)

\* bool(re.match(r"^\+?\d{10,12}$", phone)); $ also matches before a final
\* newline
validate_phone(phone) ==
    LET digits == IF phone # <<>> /\ Head(phone) = "+" THEN Tail(phone) ELSE phone
        body   == IF digits # <<>> /\ digits[Len(digits)] = NL
                  THEN SubSeq(digits, 1, Len(digits) - 1) ELSE digits
    IN  /\ Len(body) \in 10..12
        /\ \A k \in DOMAIN body : IsDigit(body[k])

\* bool(name) and name.isalnum() and len(name) >= 2
validate_name(name) ==
    /\ name # <<>>
    /\ \A k \in DOMAIN name : IsAlnum(name[k])
    /\ Len(name) >= 2

\* parse_input: the command in lower case and the list of arguments
parse_input(user_input) ==
    IF Strip(user_input) = <<>>
    THEN [cmd |-> <<>>, args |-> <<>>]
    ELSE LET parts == SplitWhitespace(user_input)
         IN  [cmd  |-> Lower(Strip(parts[1])),
              args |-> [k \in 1..(Len(parts) - 1) |-> Strip(parts[k + 1])]]

\* what a handler gives: the text it returns or the exception it raises,
\* and the contact book after it
Returns(kind, name, book) ==
    [tag |-> "reply", kind |-> kind, name |-> name, book |-> book]

Raises(e, book) == [tag |-> "raise", exc |-> e, book |-> book]

\* the wrapper of input_error: an exception becomes a text
input_error(r) ==
    IF r.tag # "raise" THEN r
    ELSE IF r.exc = "ValueError" THEN Returns("give_name_and_phone", <<>>, r.book)
    ELSE IF r.exc = "KeyError" THEN Returns("contact_not_found", <<>>, r.book)
    ELSE IF r.exc = "IndexError" THEN Returns("enter_the_argument", <<>>, r.book)
    ELSE Returns("an_error_occurred", <<>>, r.book)

\* add_contact
add_contact(args, book) ==
    input_error(
        IF Len(args) # 2 THEN Raises("ValueError", book)
        ELSE IF ~validate_name(args[1]) THEN Returns("invalid_name", <<>>, book)
        ELSE IF ~validate_phone(args[2]) THEN Returns("invalid_phone", <<>>, book)
        ELSE IF args[1] \in DOMAIN book THEN Returns("already_exists", args[1], book)
        ELSE Returns("added", args[1], With(book, args[1], args[2])))

\* change_contact without the check that the contact exists
change_contact_unchecked(args, book) ==
    input_error(
        IF Len(args) # 2 THEN Raises("ValueError", book)
        ELSE IF ~validate_phone(args[2]) THEN Returns("invalid_phone", <<>>, book)
        ELSE Returns("updated", args[1], With(book, args[1], args[2])))

\* change_contact
change_contact(args, book) ==
    input_error(
        IF Len(args) # 2 THEN Raises("ValueError", book)
        ELSE IF ~validate_phone(args[2]) THEN Returns("invalid_phone", <<>>, book)
        ELSE IF args[1] \notin DOMAIN book THEN Raises("KeyError", book)
        ELSE Returns("updated", args[1], With(book, args[1], args[2])))

\* show_phone
show_phone(args, book) ==
    input_error(
        IF Len(args) # 1 THEN Raises("ValueError", book)
        ELSE IF args[1] \notin DOMAIN book THEN Raises("KeyError", book)
        ELSE Returns("phone", args[1], book))

\* show_all
show_all(book) ==
    input_error(
        IF DOMAIN book = {} THEN Returns("no_contacts", <<>>, book)
        ELSE Returns("all", <<>>, book))

CmdHello  == <<"h", "e", "l", "l", "o">>
CmdAdd    == <<"a", "d", "d">>
CmdChange == <<"c", "h", "a", "n", "g", "e">>
CmdPhone  == <<"p", "h", "o", "n", "e">>
CmdAll    == <<"a", "l", "l">>
CmdHelp   == <<"h", "e", "l", "p">>
CmdClose  == <<"c", "l", "o", "s", "e">>
CmdExit   == <<"e", "x", "i", "t">>

\* handle_command: None for close and exit, else the handler's result
handle_command(command, args, book) ==
    IF command \in {CmdClose, CmdExit} THEN None
    ELSE IF command = CmdHello THEN Returns("hello", <<>>, book)
    ELSE IF command = CmdAdd THEN add_contact(args, book)
    ELSE IF command = CmdChange THEN change_contact(args, book)
    ELSE IF command = CmdPhone THEN show_phone(args, book)
    ELSE IF command = CmdAll THEN show_all(book)
    ELSE IF command = CmdHelp THEN Returns("help", <<>>, book)
    ELSE Returns("invalid_command", <<>>, book)

----------------------------------------------------------------------------
(* The loop of task_4.main.                                                *)

MaxArgs == 2

NameAl      == <<"A", "l">>
NameOne     == <<"A">>
NameUnder   == <<"a", "_">>
Phone10     == Digits
PhonePlus12 == <<"+">> \o Digits \o <<"0", "1">>
Phone9      == Tail(Digits)

ArgToks == {NameAl, NameOne, NameUnder, Phone10, PhonePlus12, Phone9}

CmdToks ==
    {CmdHello, CmdAdd, <<"A", "d", "d">>, CmdChange, CmdPhone, CmdAll, CmdHelp,
     CmdClose, CmdExit, <<"f", "o", "o">>}

\* the words of a line of input, joined by sep
RECURSIVE Join(_, _)
Join(words, sep) ==
    IF words = <<>> THEN <<>>
    ELSE IF Len(words) = 1 THEN words[1]
    ELSE words[1] \o sep \o Join(Tail(words), sep)

\* what the user may type at the prompt
BotInputs ==
    {Join(<<c>> \o a, <<SP>>) : c \in CmdToks, a \in SeqsUpTo(ArgToks, MaxArgs)}
    \cup {<<SP>> \o Join(<<c>> \o a, <<TAB, SP>>) \o <<SP>> :
             c \in {CmdAdd, CmdChange}, a \in [1..2 -> {NameAl, Phone10}]}
    \cup {Join(<<c, NameAl, Phone10, Phone10>>, <<SP>>) : c \in {CmdAdd, CmdChange}}
    \cup {<<>>, <<SP>>, <<TAB, SP>>}

BotInit ==
    /\ bpc = "running" /\ contacts = EmptyDict /\ lastCmd = <<>> /\ reply = None
    /\ ParseIdle /\ QueryIdle /\ MainIdle

\* input(...).strip() is empty: continue
BlankInput ==
    /\ bpc = "running"
    /\ \E u \in BotInputs :
          /\ Strip(u) = <<>>
          /\ lastCmd' = <<>> /\ reply' = None
    /\ UNCHANGED <<bpc, contacts, parseVars, queryVars, mainVars>>

\* one turn of the loop with a command
Command ==
    /\ bpc = "running"
    /\ \E u \in BotInputs :
          /\ Strip(u) # <<>>
          /\ \E p \in {parse_input(Strip(u))} :
               \E result \in {handle_command(p.cmd, p.args, contacts)} :
                 /\ lastCmd' = p.cmd
                 /\ IF result = None
                    THEN /\ reply' = Returns("good_bye", <<>>, contacts)
                         /\ bpc' = "stopped"
                         /\ UNCHANGED contacts
                    ELSE /\ reply' = result
                         /\ contacts' = result.book
                         /\ UNCHANGED bpc
    /\ UNCHANGED <<parseVars, queryVars, mainVars>>

\* KeyboardInterrupt at the prompt
Interrupt ==
    /\ bpc = "running"
    /\ bpc' = "stopped" /\ lastCmd' = <<>>
    /\ reply' = Returns("good_bye", <<>>, contacts)
    /\ UNCHANGED <<contacts, parseVars, queryVars, mainVars>>

BotNext == BlankInput \/ Command \/ Interrupt

SpecBot == BotInit /\ [][BotNext]_vars

\* every stored contact passes validate_name and validate_phone
ContactsValid ==
    \A n \in DOMAIN contacts : validate_name(n) /\ validate_phone(contacts[n])

\* what one turn may do to the contact book
TurnKeepsBook ==
    /\ reply'.tag = "reply" /\ reply'.kind = "added" =>
          /\ reply'.name \notin DOMAIN contacts
          /\ DOMAIN contacts' = DOMAIN contacts \cup {reply'.name}
    /\ reply'.tag = "reply" /\ reply'.kind = "updated" =>
          /\ reply'.name \in DOMAIN contacts
          /\ \A n \in DOMAIN contacts \ {reply'.name} : contacts'[n] = contacts[n]
    /\ ~(reply'.tag = "reply" /\ reply'.kind \in {"added", "updated"}) =>
          contacts' = contacts
    /\ lastCmd' = CmdAdd =>
          \A n \in DOMAIN contacts :
              n \in DOMAIN contacts' /\ contacts'[n] = contacts[n]
    /\ lastCmd' = CmdChange => DOMAIN contacts' = DOMAIN contacts

\* C10: from the empty book, every stored contact has a valid name and a
\* valid phone; add never overwrites a contact, change never creates one, and
\* a turn whose reply is neither "added" nor "updated" leaves the book as it
\* was.
C10_BookOnlyChangedByAddAndChange ==
    []ContactsValid /\ [][TurnKeepsBook]_vars

\* C10 witness: a book of two contacts, one of them just updated to a phone
\* with a leading +.
C10_Witness ==
    /\ Cardinality(DOMAIN contacts) = 2
    /\ reply.tag = "reply" /\ reply.kind = "updated"
    /\ contacts[reply.name] = PhonePlus12

====
